---- MODULE Spec2Model ----
(***************************************************************************)
(* Model of wiki_grabber.py: Title Resolver, Content Fetcher, Content      *)
(* Renderer, Image Locator, Thumbnail Upgrader, Image Downloader and the   *)
(* main flow.                                                              *)
(*                                                                         *)
(* Text is a sequence of atoms.  An atom is a TLA+ string standing for a   *)
(* run of characters; the whitespace atoms are " " and "\n", and every     *)
(* other atom neither starts nor ends with whitespace, so that strip(),    *)
(* split() and replace() act on atoms as Python acts on characters.        *)
(* Cat(t) is the character string a text stands for.                       *)
(***************************************************************************)
EXTENDS Integers, Sequences, FiniteSets, TLC

VARIABLES
    wiki_url,       \* main: the URL typed at the prompt (text)
    page_title,     \* main: result of extract_wiki_title (optional text)
    t_pc,           \* position in the title steps of main
    api_data,       \* argument of process_wiki_content (optional dict)
    r_pc,           \* position of the renderer run
    r_out,          \* (plain_text, html_text) returned by process_wiki_content
    max_images,     \* Image Locator: the requested maximum
    cat_resp,       \* response to the category page request (Tier 1)
    search_resp,    \* response to the media search request (Tier 2)
    l_pc,           \* position inside get_commons_category_images
    l_calls,        \* the requests issued so far, in order
    l_scan,         \* images found by the two Tier 1 scans (optional)
    l_tier2,        \* list returned by get_commons_file_namespace (optional)
    l_result,       \* list returned by get_commons_category_images (optional)
    min_width,      \* Thumbnail Upgrader: the requested minimum width
    page_resp,      \* response to the detail page request
    u_pc,           \* position in the upgrade of one descriptor
    larger_thumb,   \* result of find_larger_thumbnail (optional address)
    img_url,        \* the address download_thumbnail_images fetches (optional)
    images_list,    \* Image Downloader: the descriptors to download
    d_idx,          \* index of the descriptor the loop is at
    d_pc,           \* position inside download_thumbnail_images
    d_url,          \* img_url of the current descriptor (optional)
    d_log,          \* what happened so far: <<index, event>> pairs in order
    saved_images,   \* the file paths written so far
    m_pc,           \* main: position after the title was resolved
    api_resp,       \* main: response of the content API (optional)
    wiki_data,      \* main: result of get_wiki_content_via_api (optional dict)
    m_out,          \* main: (text_content, html_content) (optional)
    m_files,        \* main: the files written so far
    m_inputs,       \* main: the answers typed at the prompts
    m_images        \* main: images, then saved_imgs

titleVars  == <<wiki_url, page_title, t_pc>>
renderVars == <<api_data, r_pc, r_out>>
locVars == <<max_images, cat_resp, search_resp, l_pc, l_calls, l_scan, l_tier2, l_result>>
upVars == <<min_width, page_resp, u_pc, larger_thumb, img_url>>
dlVars == <<images_list, d_idx, d_pc, d_url, d_log, saved_images>>
mainVars == <<m_pc, api_resp, wiki_data, m_out, m_files, m_inputs, m_images>>
vars == <<titleVars, renderVars, locVars, upVars, dlVars, mainVars>>

\* What each part of the program leaves alone.
notTitle == <<renderVars, locVars, upVars, dlVars, mainVars>>
notRender == <<titleVars, locVars, upVars, dlVars, mainVars>>
notLocator == <<titleVars, renderVars, upVars, dlVars, mainVars>>
notUpgrader == <<titleVars, renderVars, locVars, dlVars, mainVars>>
notDownloader == <<titleVars, renderVars, locVars, upVars, mainVars>>

(***************************************************************************)
(* Python values.                                                          *)
(***************************************************************************)
None == [some |-> FALSE]
Some(v) == [some |-> TRUE, val |-> v]
IsNone(o) == ~o.some

\* The parts of the program a specification does not run stay idle.
IdleTitle == wiki_url = <<>> /\ page_title = None /\ t_pc = "idle"

IdleRender == api_data = None /\ r_pc = "idle" /\ r_out = None

IdleLocator ==
    /\ max_images = 0
    /\ cat_resp = None
    /\ search_resp = None
    /\ l_pc = "idle"
    /\ l_calls = <<>>
    /\ l_scan = None
    /\ l_tier2 = None
    /\ l_result = None
IdleUpgrader ==
    /\ min_width = 0
    /\ page_resp = None
    /\ u_pc = "idle"
    /\ larger_thumb = None
    /\ img_url = None
IdleDownloader ==
    /\ images_list = <<>>
    /\ d_idx = 0
    /\ d_pc = "idle"
    /\ d_url = None
    /\ d_log = <<>>
    /\ saved_images = <<>>
IdleMain ==
    /\ m_pc = "idle"
    /\ api_resp = None
    /\ wiki_data = None
    /\ m_out = None
    /\ m_files = {}
    /\ m_inputs = <<>>
    /\ m_images = None

\* All sequences over S of length at most n.
SeqUpTo(S, n) == UNION {[1..k -> S] : k \in 0..n}

RECURSIVE Cat(_)
Cat(t) == IF t = <<>> THEN "" ELSE Head(t) \o Cat(Tail(t))

\* First index of atom a in s, 0 when absent (str.find + 1).
RECURSIVE IndexFrom(_, _, _)
IndexFrom(s, a, i) ==
    IF i > Len(s) THEN 0
    ELSE IF s[i] = a THEN i ELSE IndexFrom(s, a, i + 1)
IndexOf(s, a) == IndexFrom(s, a, 1)

\* "a in s" for a one-atom needle.
Contains(s, a) == IndexOf(s, a) # 0

\* str.split(sep): the list of pieces between the occurrences of sep.
RECURSIVE Split(_, _)
Split(s, sep) ==
    LET i == IndexOf(s, sep) IN
    IF i = 0 THEN <<s>>
    ELSE <<SubSeq(s, 1, i - 1)>> \o Split(SubSeq(s, i + 1, Len(s)), sep)

\* str.replace(old, new) for a one-atom old and a text new.
RECURSIVE Replace(_, _, _)
Replace(s, old, new) ==
    IF s = <<>> THEN <<>>
    ELSE (IF Head(s) = old THEN new ELSE <<Head(s)>>) \o Replace(Tail(s), old, new)

IsSpace(a) == a \in {" ", "\n"}

RECURSIVE LStrip(_)
LStrip(s) == IF s # <<>> /\ IsSpace(Head(s)) THEN LStrip(Tail(s)) ELSE s
RECURSIVE RStrip(_)
RStrip(s) ==
    IF s # <<>> /\ IsSpace(s[Len(s)]) THEN RStrip(SubSeq(s, 1, Len(s) - 1)) ELSE s
\* str.strip()
Strip(s) == LStrip(RStrip(s))

(***************************************************************************)
(* Title Resolver: extract_wiki_title and its use in main.                 *)
(***************************************************************************)
WikiMarker == "/wiki/"

\* The atoms a URL is made of.  "%5F" and "%23" are the percent-escapes of
\* "_" and "#".
UrlAtoms == {WikiMarker, "Gravity", "_", "#", "?", "%5F", "%23"}

MaxUrlLen == 3

\* urllib.parse.unquote on one atom.
UnquoteAtom(a) ==
    CASE a = "%5F" -> "_"
      [] a = "%23" -> "#"
      [] OTHER -> a

\* urllib.parse.unquote
Unquote(s) == [i \in 1..Len(s) |-> UnquoteAtom(s[i])]

\* wiki_url.split('/wiki/')[1].split('#')[0].split('?')[0]
TitleSegmentNoQuery(u) == Split(Split(u, WikiMarker)[2], "#")[1]
TitleSegment(u) == Split(Split(Split(u, WikiMarker)[2], "#")[1], "?")[1]

extract_wiki_title(u) ==
    IF Contains(u, WikiMarker)
    THEN Some(Replace(Unquote(TitleSegment(u)), "_", <<" ">>))
    ELSE None

\* Python truthiness of an optional text: None and "" are false.
Truthy(o) == o.some /\ o.val # <<>>

InitTitle ==
    /\ wiki_url \in SeqUpTo(UrlAtoms, MaxUrlLen)
    /\ page_title = None
    /\ t_pc = "input"
    /\ IdleRender /\ IdleLocator /\ IdleUpgrader /\ IdleDownloader /\ IdleMain

\* main: page_title = extract_wiki_title(wiki_url)
ExtractTitle ==
    /\ t_pc = "input"
    /\ page_title' = extract_wiki_title(wiki_url)
    /\ t_pc' = "extracted"
    /\ UNCHANGED <<wiki_url, notTitle>>

\* main: if not page_title: print(...); exit(1)
CheckTitle ==
    /\ t_pc = "extracted"
    /\ t_pc' = IF Truthy(page_title) THEN "resolved" ELSE "exit1"
    /\ UNCHANGED <<wiki_url, page_title, notTitle>>

NextTitle == ExtractTitle \/ CheckTitle
SpecTitle == InitTitle /\ [][NextTitle]_vars

HasMarker == Contains(wiki_url, WikiMarker)

\* The text after the first marker, whole (up to the end of the URL).
AfterFirstMarker == SubSeq(wiki_url, IndexOf(wiki_url, WikiMarker) + 1, Len(wiki_url))

\* Index of the first atom of s that is in stops, Len(s) + 1 when there is none.
FirstStop(s, stops) ==
    IF \E i \in 1..Len(s) : s[i] \in stops
    THEN CHOOSE i \in 1..Len(s) :
            s[i] \in stops /\ \A j \in 1..(i - 1) : s[j] \notin stops
    ELSE Len(s) + 1

\* Percent-decoding followed by underscore replacement, atom by atom.
DecodedAtom(a) ==
    IF a \in {"_", "%5F"} THEN " " ELSE IF a = "%23" THEN "#" ELSE a
Decoded(s) == [i \in 1..Len(s) |-> DecodedAtom(s[i])]

\* s cut at the first atom that is in stops.
CutAt(s, stops) == SubSeq(s, 1, FirstStop(s, stops) - 1)

\* C7 as stated: failure exactly when the marker is absent; with the marker a
\* non-empty title, the whole text after the marker cut at the first '#' or '?',
\* percent-decoded, underscores replaced by spaces.
C7_TitleNonEmptyAfterMarker ==
    t_pc # "input" =>
        /\ (IsNone(page_title) <=> ~HasMarker)
        /\ HasMarker =>
              /\ page_title.val # <<>>
              /\ page_title.val = Decoded(CutAt(AfterFirstMarker, {"#", "?"}))

\* C7 amended: extract_wiki_title returns None exactly when the marker is absent;
\* with the marker it returns the text between the first marker and the next
\* marker (or the end), cut at the first '#' or '?', percent-decoded, underscores
\* replaced by spaces.  That title may be empty, and main exits with status 1
\* exactly when the marker is absent or the title is empty.
C7_TitleResolved ==
    LET expected == Decoded(CutAt(AfterFirstMarker, {"#", "?", WikiMarker})) IN
    t_pc # "input" =>
        /\ (IsNone(page_title) <=> ~HasMarker)
        /\ HasMarker => page_title = Some(expected)
        /\ t_pc = "exit1" => (~HasMarker \/ expected = <<>>)
        /\ t_pc = "resolved" => (HasMarker /\ expected # <<>>)

\* A URL with text after the title's end ('#' or '?') and an escaped underscore in
\* the title has been resolved.
C7_Witness ==
    /\ t_pc = "resolved"
    /\ Contains(wiki_url, "%5F")
    /\ Contains(wiki_url, "?")
    /\ page_title = Some(<<" ">>)

(***************************************************************************)
(* Content Renderer: process_wiki_content.                                 *)
(*                                                                         *)
(* Markup is held as the tree BeautifulSoup parses it into: a sequence of  *)
(* nodes, an element [tag, cls, kids] or a text node (tag "#text") with    *)
(* its text.  The empty sequence is the empty string of markup.  A dict is *)
(* a function from its keys.                                               *)
(***************************************************************************)
El(tag, cls, kids) == [tag |-> tag, cls |-> cls, text |-> <<>>, kids |-> kids]
Txt(t) == [tag |-> "#text", cls |-> {}, text |-> t, kids |-> <<>>]

RECURSIVE GetTextSeq(_)
\* Tag.get_text(): the text nodes below a node, concatenated in document order.
GetText(n) == IF n.tag = "#text" THEN n.text ELSE GetTextSeq(n.kids)
GetTextSeq(ns) == IF ns = <<>> THEN <<>> ELSE GetText(Head(ns)) \o GetTextSeq(Tail(ns))

\* soup.select('.mw-editsection, .reference, .mw-empty-elt, .noprint, .mbox-image')
UnwantedClasses == {"mw-editsection", "reference", "mw-empty-elt", "noprint", "mbox-image"}

\* The loop of decompose() calls: every element carrying an unwanted class is
\* removed with all it contains.
RECURSIVE Decompose(_)
Decompose(ns) ==
    IF ns = <<>> THEN <<>>
    ELSE LET n == Head(ns) IN
         (IF n.cls \cap UnwantedClasses # {} THEN <<>>
          ELSE <<[n EXCEPT !.kids = Decompose(n.kids)]>>) \o Decompose(Tail(ns))

BlockTags == {"p", "h1", "h2", "h3", "h4", "h5", "h6", "ul", "ol", "table"}

\* soup.find_all([...]): every element below the root with one of the tags, in
\* document order, each with its chain of parents (element.parents).
RECURSIVE FindAll(_, _, _)
FindAll(ns, tags, parents) ==
    IF ns = <<>> THEN <<>>
    ELSE LET n == Head(ns) IN
         (IF n.tag \in tags THEN <<[node |-> n, parents |-> parents]>> ELSE <<>>)
         \o FindAll(n.kids, tags, <<n>> \o parents)
         \o FindAll(Tail(ns), tags, parents)

\* c in ' '.join(parent.get('class', '')): substring test of a marker in the
\* class string, for the class names the model uses.
NavMarkers == {"toc", "sidebar", "navbox", "vertical-navbox"}
MarkerInClass(marker, cls) ==
    \/ marker = cls
    \/ marker = "toc" /\ cls = "toccolours"
    \/ marker = "navbox" /\ cls \in {"vertical-navbox", "navbox-inner"}

\* any(parent.get('class', '') and any(c in ... for c in [...]) for parent in element.parents)
InUnwantedSection(e) ==
    \E i \in 1..Len(e.parents) :
        \E c \in e.parents[i].cls : \E m \in NavMarkers : MarkerInClass(m, c)

RECURSIVE Repeat(_, _)
Repeat(a, n) == IF n = 0 THEN <<>> ELSE <<a>> \o Repeat(a, n - 1)

\* int(element.name[1])
HeadingLevel(tag) ==
    CASE tag = "h1" -> 1 [] tag = "h2" -> 2 [] tag = "h3" -> 3
      [] tag = "h4" -> 4 [] tag = "h5" -> 5 [] tag = "h6" -> 6

\* re.sub(r'^\[\s*edit\s*\]', '', heading_text)
StripEditMarker(t) ==
    LET a == LStrip(IF t # <<>> /\ Head(t) = "[" THEN Tail(t) ELSE <<>>)
        b == LStrip(IF a # <<>> /\ Head(a) = "edit" THEN Tail(a) ELSE <<>>)
    IN  IF t # <<>> /\ Head(t) = "[" /\ a # <<>> /\ Head(a) = "edit"
           /\ b # <<>> /\ Head(b) = "]"
        THEN Tail(b) ELSE t

\* element.find_all('li', recursive=False)
DirectItems(n) == SelectSeq(n.kids, LAMBDA k : k.tag = "li")

RECURSIVE ListLines(_)
\* for li in ...: plain_text += '- ' + li.get_text().strip() + '\n'
ListLines(items) ==
    IF items = <<>> THEN <<>>
    ELSE <<"-", " ">> \o Strip(GetText(Head(items))) \o <<"\n">> \o ListLines(Tail(items))

\* element.find('caption'): the first caption below the table, or none.
FindCaption(n) ==
    LET found == FindAll(n.kids, {"caption"}, <<>>) IN
    IF found = <<>> THEN None ELSE Some(found[1].node)

\* Body of the loop at "for element in soup.find_all": the text one element adds.
RenderElement(n) ==
    IF n.tag \in {"h1", "h2", "h3", "h4", "h5", "h6"} THEN
        <<"\n">> \o Repeat("#", HeadingLevel(n.tag)) \o <<" ">>
        \o StripEditMarker(Strip(GetText(n))) \o <<"\n", "\n">>
    ELSE IF n.tag = "p" THEN
        (IF Strip(GetText(n)) # <<>> THEN Strip(GetText(n)) \o <<"\n", "\n">> ELSE <<>>)
    ELSE IF n.tag \in {"ul", "ol"} THEN
        ListLines(DirectItems(n)) \o <<"\n">>
    ELSE \* table
        LET caption == FindCaption(n) IN
        IF caption.some
        THEN <<"[Table:", " ">> \o Strip(GetText(caption.val)) \o <<"]", "\n", "\n">>
        ELSE <<"[Table content]", "\n", "\n">>

\* The loop over the found elements, with its "continue" for unwanted sections.
RECURSIVE RenderEntries(_)
RenderEntries(es) ==
    IF es = <<>> THEN <<>>
    ELSE (IF InUnwantedSection(Head(es)) THEN <<>> ELSE RenderElement(Head(es).node))
         \o RenderEntries(Tail(es))

\* (Lines 101-102 read api_data['sections'] into a dict that nothing uses.)

\* api_data.get('displaytitle', api_data.get('title', 'Untitled')), then
\* BeautifulSoup(title, 'html.parser').get_text()
TitleMarkup(d) ==
    IF "displaytitle" \in DOMAIN d THEN d["displaytitle"]
    ELSE IF "title" \in DOMAIN d THEN d["title"]
    ELSE <<Txt(<<"Untitled">>)>>
TitleLine(d) == <<"#", " ">> \o GetTextSeq(TitleMarkup(d)) \o <<"\n", "\n">>

RECURSIVE CategoryLinesKeepPrefix(_)
CategoryLinesKeepPrefix(cats) ==
    IF cats = <<>> THEN <<>>
    ELSE <<"-", " ">> \o Head(cats)["*"] \o <<"\n">> \o CategoryLinesKeepPrefix(Tail(cats))
RECURSIVE CategoryLines(_)
\* cat_name = cat['*'].replace('Category:', ''); plain_text += f"- {cat_name}\n"
CategoryLines(cats) ==
    IF cats = <<>> THEN <<>>
    ELSE <<"-", " ">> \o Replace(Head(cats)["*"], "Category:", <<>>) \o <<"\n">>
         \o CategoryLines(Tail(cats))

RECURSIVE LinkLines(_)
\* plain_text += f"- {link}\n"
LinkLines(links) ==
    IF links = <<>> THEN <<>>
    ELSE <<"-", " ">> \o Head(links) \o <<"\n">> \o LinkLines(Tail(links))

\* "Add metadata at the end"
Metadata(d) ==
    (IF "categories" \in DOMAIN d
     THEN <<"\n", "## Categories", "\n">> \o CategoryLines(d["categories"]) ELSE <<>>)
    \o
    (IF "externallinks" \in DOMAIN d
     THEN <<"\n", "## External Links", "\n">> \o LinkLines(d["externallinks"]) ELSE <<>>)

FailureText == <<"Failed to retrieve page content">>

ContentMissingOrEmpty(a) ==
    \/ IsNone(a)
    \/ a.val = <<>>
    \/ "text" \notin DOMAIN a.val
    \/ "*" \notin DOMAIN a.val["text"]
    \/ a.val["text"]["*"] = <<>>
\* not api_data or 'text' not in api_data or '*' not in api_data['text']
ContentMissing(a) ==
    \/ IsNone(a)
    \/ a.val = <<>>
    \/ "text" \notin DOMAIN a.val
    \/ "*" \notin DOMAIN a.val["text"]

process_wiki_content(a) ==
    IF ContentMissing(a) THEN [plain |-> FailureText, html |-> None]
    ELSE LET d == a.val
             html_content == d["text"]["*"]
             soup == Decompose(html_content)
         IN  [plain |-> Strip(TitleLine(d)
                              \o RenderEntries(FindAll(soup, BlockTags, <<>>))
                              \o Metadata(d)),
              html |-> Some(html_content)]

(***************************************************************************)
(* The content trees the renderer is run on.                               *)
(***************************************************************************)
ParaText == <<"Gravity is...">>
ParaPlain == El("p", {}, <<Txt(ParaText)>>)
ParaPadded == El("p", {}, <<Txt(<<"\n", "Gravity is...", " ">>)>>)
ParaBlank == El("p", {}, <<Txt(<<" ">>)>>)
ParaRef == El("p", {}, <<Txt(ParaText), El("sup", {"reference"}, <<Txt(<<"[1]">>)>>)>>)
HeadingEdit == El("h2", {}, <<Txt(<<"[", "edit", "]", "History">>)>>)
ListFlat ==
    El("ul", {}, <<El("li", {}, <<Txt(<<"a">>)>>), El("li", {}, <<Txt(<<" ", "b">>)>>)>>)
ListNested ==
    El("ul", {}, <<El("li", {}, <<Txt(<<"a">>),
                                  El("ol", {}, <<El("li", {}, <<Txt(<<"b">>)>>)>>)>>)>>)
TablePlain == El("table", {}, <<El("tr", {}, <<El("td", {}, <<Txt(<<"cell">>)>>)>>)>>)
TableCaptionPara ==
    El("table", {},
       <<El("caption", {}, <<Txt(<<"Data">>)>>),
         El("tr", {}, <<El("td", {}, <<El("p", {}, <<Txt(<<"cell">>)>>)>>)>>)>>)
TableList == El("table", {}, <<El("tr", {}, <<El("td", {}, <<ListFlat>>)>>)>>)
NavBox == El("div", {"navbox-inner"}, <<El("p", {}, <<Txt(<<"nav">>)>>)>>)
Wrapped == El("div", {"mw-parser-output"}, <<ParaPlain>>)

BlockShapes ==
    {ParaPlain, ParaPadded, ParaBlank, ParaRef, HeadingEdit, ListFlat, ListNested,
     TablePlain, TableCaptionPara, TableList, NavBox, Wrapped}

MaxBlocks == 2

Markups == SeqUpTo(BlockShapes, MaxBlocks)

\* The fields of the parse object other than 'text'.
TitleFields ==
    {<<>>,
     [title |-> <<Txt(<<"Gravity">>)>>],
     [title |-> <<Txt(<<"Gravity">>)>>,
      displaytitle |-> <<El("i", {}, <<Txt(<<"Gravity">>)>>)>>]}
CategoryFields ==
    {<<>>,
     [categories |-> <<("*" :> <<"Category:", "Physics">>)>>],
     [categories |-> <<("*" :> <<"Category:", "Physics">>), ("*" :> <<"Rivers">>)>>]}
LinkFields == {<<>>, [externallinks |-> <<<<"https://example.org/">>>>]}
MetaFields == {t @@ c @@ l : t \in TitleFields, c \in CategoryFields, l \in LinkFields}

\* What get_wiki_content_via_api can hand over: nothing, a parse object without
\* 'text', one whose 'text' has no '*', and one with markup (the empty markup
\* included).
ContentTrees ==
    {None}
    \cup {Some(m) : m \in MetaFields}
    \cup {Some(m @@ [text |-> <<>>]) : m \in MetaFields}
    \cup {Some(m @@ [text |-> ("*" :> h)]) : m \in MetaFields, h \in Markups}

InitRender ==
    /\ api_data \in ContentTrees
    /\ r_pc = "call"
    /\ r_out = None
    /\ IdleTitle /\ IdleLocator /\ IdleUpgrader /\ IdleDownloader /\ IdleMain

\* text_content, html_content = process_wiki_content(wiki_data)
ProcessWikiContent ==
    /\ r_pc = "call"
    /\ r_out' = Some(process_wiki_content(api_data))
    /\ r_pc' = "done"
    /\ UNCHANGED <<api_data, notRender>>

NextRender == ProcessWikiContent
SpecRender == InitRender /\ [][NextRender]_vars

(***************************************************************************)
(* Content Renderer: properties.                                           *)
(***************************************************************************)
Rendered == r_pc = "done"
PlainOut == Cat(r_out.val.plain)

NoTree == IsNone(api_data) \/ DOMAIN api_data.val = {}
NoTextField == api_data.some /\ DOMAIN api_data.val # {} /\ "text" \notin DOMAIN api_data.val
NoMarkupEntry ==
    api_data.some /\ "text" \in DOMAIN api_data.val
    /\ "*" \notin DOMAIN api_data.val["text"]
HasMarkupEntry ==
    api_data.some /\ "text" \in DOMAIN api_data.val
    /\ "*" \in DOMAIN api_data.val["text"]
EmptyMarkup == HasMarkupEntry /\ api_data.val["text"]["*"] = <<>>

\* C5 as stated: a content tree whose markup is absent or the empty string yields
\* exactly the failure placeholder and no secondary output.
C5_EmptyOrAbsentIsFailure ==
    Rendered /\ (NoTree \/ NoTextField \/ NoMarkupEntry \/ EmptyMarkup) =>
        /\ PlainOut = "Failed to retrieve page content"
        /\ r_out.val.html = None

\* C5 amended: a content tree whose markup is absent (no tree, an empty tree, no
\* text field, no markup entry) yields exactly the failure placeholder and no
\* secondary output; a markup entry that is the empty string is rendered like any
\* other markup: the text starts with the title line, is not the placeholder, and
\* the secondary output is the (empty) markup.
C5_AbsentIsFailure ==
    Rendered =>
        /\ (NoTree \/ NoTextField \/ NoMarkupEntry) =>
              /\ PlainOut = "Failed to retrieve page content"
              /\ r_out.val.html = None
        /\ EmptyMarkup =>
              /\ PlainOut # "Failed to retrieve page content"
              /\ SubSeq(r_out.val.plain, 1, 2) = <<"#", " ">>
              /\ r_out.val.html = Some(<<>>)

\* A tree with a text field that has no markup entry was rendered to the placeholder.
C5_Witness ==
    /\ Rendered
    /\ NoMarkupEntry
    /\ "categories" \in DOMAIN api_data.val
    /\ r_out.val = [plain |-> FailureText, html |-> None]

\* The trees of C6: a display title, one non-blank paragraph, one category, no
\* external-links field.
OneParagraphTree ==
    /\ HasMarkupEntry
    /\ "displaytitle" \in DOMAIN api_data.val
    /\ "externallinks" \notin DOMAIN api_data.val
    /\ "categories" \in DOMAIN api_data.val
    /\ Len(api_data.val["categories"]) = 1
    /\ api_data.val["text"]["*"] \in {<<ParaPlain>>, <<ParaPadded>>, <<ParaRef>>}

TitleOf == Cat(GetTextSeq(api_data.val["displaytitle"]))
CategoryNameOf ==
    LET c == api_data.val["categories"][1]["*"] IN
    Cat(IF Head(c) = "Category:" THEN Tail(c) ELSE c)

\* C6 as stated: title line, one blank line, the paragraph, one blank line, the
\* Categories heading, the category line without its namespace prefix.
C6_OneBlankLineBeforeCategories ==
    Rendered /\ OneParagraphTree =>
        PlainOut = "# " \o TitleOf \o "\n\n" \o Cat(ParaText)
                   \o "\n\n## Categories\n- " \o CategoryNameOf

\* C6 amended: the rendered text is "# T\n\nP\n\n\n## Categories\n- C": the
\* paragraph is followed by two blank lines, the paragraph's own and the one that
\* precedes the Categories heading.
C6_TwoBlankLinesBeforeCategories ==
    Rendered /\ OneParagraphTree =>
        PlainOut = "# " \o TitleOf \o "\n\n" \o Cat(ParaText)
                   \o "\n\n\n## Categories\n- " \o CategoryNameOf

\* The Gravity scenario was rendered.
C6_Witness ==
    /\ Rendered
    /\ OneParagraphTree
    /\ PlainOut = "# Gravity\n\nGravity is...\n\n\n## Categories\n- Physics"

\* The found elements that lie inside no list and no table.
OutsideListsAndTables(es) ==
    SelectSeq(es, LAMBDA e :
        \A i \in 1..Len(e.parents) : e.parents[i].tag \notin {"ul", "ol", "table"})

\* C9: only top-level block elements are rendered: the items of a list nested in a
\* list item get no lines of their own, and nothing inside a table is rendered
\* beside the table's one-line placeholder.
C9_OnlyTopLevelBlocks ==
    Rendered /\ HasMarkupEntry =>
        LET d == api_data.val
            found == FindAll(Decompose(d["text"]["*"]), BlockTags, <<>>)
        IN  r_out.val.plain =
                Strip(TitleLine(d) \o RenderEntries(OutsideListsAndTables(found))
                      \o Metadata(d))

(***************************************************************************)
(* Image Locator: get_commons_category_images (Tier 1) and                 *)
(* get_commons_file_namespace (Tier 2).                                    *)
(*                                                                         *)
(* A response is what requests.get gives: an exception, or a final URL     *)
(* (redirected to Special:Search or not), a status and a page.  A page is  *)
(* the sequence of its items in document order.  An item of the category   *)
(* page is a gallery box or a free-standing thumbnail container; the       *)
(* gallery boxes of a page hold their image and link inside a thumbnail    *)
(* container (wrapped) or directly.  An item of the search page is a       *)
(* modern result link or a legacy result block.  The i-th item of a page   *)
(* links the i-th file.                                                    *)
(***************************************************************************)
MaxItems == 2
MaxN == 2

FileNames == <<"a.jpg", "b.jpg", "c.jpg", "d.jpg">>

\* Item forms: protocol-relative src and relative href, absolute src and href, and
\* an item whose link (category page) or image (search page) is missing.
ItemForms == {"rel", "abs", "broken"}

CategoryItems == [where : {"gallery", "thumb"}, form : ItemForms]
SearchItems == [where : {"modern", "legacy"}, form : ItemForms]

\* The attributes of the i-th item: img['src'] and a['href'].
ItemSrc(it, i) ==
    IF it.form = "abs"
    THEN <<"https:", "//", "upload.wikimedia.org/", "thumb/", FileNames[i]>>
    ELSE <<"//", "upload.wikimedia.org/", "thumb/", FileNames[i]>>
ItemHref(it, i) ==
    IF it.form = "abs"
    THEN <<"https:", "//", "commons.wikimedia.org", "/wiki/", "File:", "%5F", FileNames[i]>>
    ELSE <<"/wiki/", "File:", "%5F", FileNames[i]>>

\* The parsed elements of a page: each with the image and the link found in it.
Element(it, i) ==
    [idx |-> i,
     img |-> IF it.where \in {"modern", "legacy"} /\ it.form = "broken"
             THEN None ELSE Some(ItemSrc(it, i)),
     link |-> IF it.where \in {"gallery", "thumb"} /\ it.form = "broken"
              THEN None ELSE Some(ItemHref(it, i))]
Indices(n) == [i \in 1..n |-> i]
ElementsAt(items, idxs) == [k \in 1..Len(idxs) |-> Element(items[idxs[k]], idxs[k])]

\* soup.find('ul', {'class': 'gallery'}) and gallery.find_all('li', {'class': 'gallerybox'})
GalleryBoxes(p) ==
    ElementsAt(p.items, SelectSeq(Indices(Len(p.items)),
                                  LAMBDA i : p.items[i].where = "gallery"))
\* soup.find_all('div', {'class': 'thumb'})
ThumbDivs(p) ==
    ElementsAt(p.items, SelectSeq(Indices(Len(p.items)),
        LAMBDA i : \/ p.items[i].where = "thumb"
                   \/ (p.items[i].where = "gallery" /\ p.wrapped)))
\* soup.find_all('a', {'class': 'sdms-image-result'})
ModernResults(p) ==
    ElementsAt(p.items, SelectSeq(Indices(Len(p.items)),
                                  LAMBDA i : p.items[i].where = "modern"))
\* soup.find_all('div', {'class': 'searchResultImage'})
LegacyResults(p) ==
    ElementsAt(p.items, SelectSeq(Indices(Len(p.items)),
                                  LAMBDA i : p.items[i].where = "legacy"))

\* url.startswith('http')
StartsWithHttp(u) == u # <<>> /\ Head(u) \in {"https:", "http:"}

\* Atoms are cut so that a '/' is always the last character of its atom.
EndsWithSlash(a) == a \in {"//", "/wiki/", "upload.wikimedia.org/", "thumb/"}

\* file_page.split('/')[-1]
RECURSIVE LastSegment(_)
LastSegment(u) ==
    IF u = <<>> THEN <<>>
    ELSE IF \E i \in 1..Len(u) : EndsWithSlash(u[i]) THEN LastSegment(Tail(u))
    ELSE u

\* The descriptor built from one element (lines 220-236, 251-267, 315-334, 350-366).
Descriptor(e) ==
    LET thumb_url == IF StartsWithHttp(e.img.val) THEN e.img.val
                     ELSE <<"https:">> \o e.img.val
        file_page == IF StartsWithHttp(e.link.val) THEN e.link.val
                     ELSE <<"https:", "//", "commons.wikimedia.org">> \o e.link.val
    IN  [filename |-> Unquote(LastSegment(file_page)),
         thumbnail_url |-> thumb_url,
         file_page |-> file_page]

\* One "for ... in ...:" scan: stops at max_images, appends a descriptor for every
\* element that has both its image and its link.
RECURSIVE ScanUncapped(_, _, _)
ScanUncapped(es, max, acc) ==
    IF es = <<>> THEN acc
    ELSE LET e == Head(es) IN
         ScanUncapped(Tail(es), max,
              IF e.img.some /\ e.link.some
              THEN [images |-> Append(acc.images, Descriptor(e)), count |-> acc.count + 1]
              ELSE acc)
RECURSIVE Scan(_, _, _)
Scan(es, max, acc) ==
    IF es = <<>> THEN acc
    ELSE IF acc.count >= max THEN acc
    ELSE LET e == Head(es) IN
         Scan(Tail(es), max,
              IF e.img.some /\ e.link.some
              THEN [images |-> Append(acc.images, Descriptor(e)), count |-> acc.count + 1]
              ELSE acc)

NoImages == [images |-> <<>>, count |-> 0]

\* Lines 205-270: the gallery scan, then the thumbnail scan if count < max_images.
Tier1Scan(page, max) ==
    LET g == Scan(GalleryBoxes(page), max, NoImages)
    IN  IF g.count < max THEN Scan(ThumbDivs(page), max, g) ELSE g

\* Lines 305-369: the modern scan, then the legacy scan if no image was found.
Tier2Scan(page, max) ==
    LET m == Scan(ModernResults(page), max, NoImages)
    IN  IF m.images = <<>> THEN Scan(LegacyResults(page), max, m) ELSE m

\* get_commons_file_namespace on the response its request gets: an exception or a
\* status other than 200 gives the empty list.
get_commons_file_namespace(resp, max) ==
    IF resp.kind = "raise" \/ resp.status # 200 THEN <<>>
    ELSE Tier2Scan(resp.page, max).images

\* Position after the status check of Tier 1 (lines 192-200).
AfterFetchStatusFirst(resp) ==
    IF resp.kind = "raise" THEN "return_empty"
    ELSE IF resp.status # 200 THEN "return_empty"
    ELSE IF resp.redirected THEN "tier2"
    ELSE "scan"
AfterFetch(resp) ==
    IF resp.kind = "raise" THEN "return_empty"
    ELSE IF resp.redirected THEN "tier2"
    ELSE IF resp.status # 200 THEN "return_empty"
    ELSE "scan"

\* Lines 272-276: fall back to Tier 2 when no image was found.
AfterScanNoFallback(images) == "return_images"
AfterScan(images) == IF images = <<>> THEN "tier2" ELSE "return_images"

\* get_commons_category_images on the responses its requests get.
get_commons_category_images(cresp, sresp, max) ==
    LET next == AfterFetch(cresp) IN
    IF next = "return_empty" THEN <<>>
    ELSE IF next = "tier2" THEN get_commons_file_namespace(sresp, max)
    ELSE LET found == Tier1Scan(cresp.page, max).images IN
         IF AfterScan(found) = "tier2" THEN get_commons_file_namespace(sresp, max)
         ELSE found

CategoryPages == [wrapped : BOOLEAN, items : SeqUpTo(CategoryItems, MaxItems)]
SearchPages == [items : SeqUpTo(SearchItems, MaxItems)]
NoPage == [wrapped |-> FALSE, items |-> <<>>]

\* The responses requests.get can give to the category request.  The page of a
\* response that is not scanned is immaterial and left empty.
CategoryResponses ==
    {[kind |-> "raise", redirected |-> FALSE, status |-> 0, page |-> NoPage]}
    \cup {[kind |-> "ok", redirected |-> r, status |-> st, page |-> NoPage] :
            r \in BOOLEAN, st \in {200, 404}} 
    \cup {[kind |-> "ok", redirected |-> FALSE, status |-> 200, page |-> p] :
            p \in CategoryPages}
SearchResponses ==
    {[kind |-> "raise", status |-> 0, page |-> [items |-> <<>>]],
     [kind |-> "ok", status |-> 404, page |-> [items |-> <<>>]]}
    \cup {[kind |-> "ok", status |-> 200, page |-> p] : p \in SearchPages}

\* images = get_commons_category_images(page_title, max_images=max_imgs): max_imgs
\* is 15 or whatever integer int(user_max) gave.
InitLocator ==
    /\ max_images \in -1..MaxN
    /\ cat_resp = None
    /\ search_resp = None
    /\ l_pc = "tier1"
    /\ l_calls = <<>>
    /\ l_scan = None
    /\ l_tier2 = None
    /\ l_result = None
    /\ IdleTitle /\ IdleRender /\ IdleUpgrader /\ IdleDownloader /\ IdleMain

\* Lines 189-200: the category request, the redirect check and the status check.
Tier1Fetch ==
    /\ l_pc = "tier1"
    /\ \E resp \in CategoryResponses :
          /\ cat_resp' = Some(resp)
          /\ l_calls' = Append(l_calls, "category")
          /\ LET next == AfterFetch(resp) IN
             IF next = "return_empty"
             THEN l_pc' = "returned" /\ l_result' = Some(<<>>)
             ELSE l_pc' = next /\ UNCHANGED l_result
    /\ UNCHANGED <<max_images, search_resp, l_scan, l_tier2, notLocator>>

\* Lines 202-276: both scans, then either the images or the call of Tier 2.
Tier1ScanPage ==
    /\ l_pc = "scan"
    /\ LET found == Tier1Scan(cat_resp.val.page, max_images) IN
          /\ l_scan' = Some(found.images)
          /\ IF AfterScan(found.images) = "tier2"
             THEN l_pc' = "tier2" /\ UNCHANGED l_result
             ELSE l_pc' = "returned" /\ l_result' = Some(found.images)
    /\ UNCHANGED <<max_images, cat_resp, search_resp, l_calls, l_tier2, notLocator>>

\* get_commons_file_namespace, lines 297-375: the search request, the status check,
\* both scans; an exception gives the empty list.
Tier2Search ==
    /\ l_pc = "tier2"
    /\ \E resp \in SearchResponses :
          /\ search_resp' = Some(resp)
          /\ l_calls' = Append(l_calls, "search")
          /\ l_tier2' = Some(get_commons_file_namespace(resp, max_images))
    /\ l_pc' = "tier2_done"
    /\ UNCHANGED <<max_images, cat_resp, l_scan, l_result, notLocator>>

\* Lines 196 and 274: return get_commons_file_namespace(page_name, max_images)
Tier2Return ==
    /\ l_pc = "tier2_done"
    /\ l_result' = l_tier2
    /\ l_pc' = "returned"
    /\ UNCHANGED <<max_images, cat_resp, search_resp, l_calls, l_scan, l_tier2,
                   notLocator>>

NextLocator == Tier1Fetch \/ Tier1ScanPage \/ Tier2Search \/ Tier2Return
SpecLocator == InitLocator /\ [][NextLocator]_vars

(***************************************************************************)
(* Image Locator: properties.                                              *)
(***************************************************************************)
Located == l_pc = "returned"
Tier1Ok == cat_resp.some /\ cat_resp.val.kind = "ok"
Tier1Redirected == Tier1Ok /\ cat_resp.val.redirected
Tier1Scanned == Tier1Ok /\ ~cat_resp.val.redirected /\ cat_resp.val.status = 200

\* The items of the category page that carry both an image and a link.
UsableItems ==
    {i \in 1..Len(cat_resp.val.page.items) : cat_resp.val.page.items[i].form # "broken"}

\* C1 as stated: for every requested maximum N the returned list has length <= N.
C1_AtMostN == Located => Len(l_result.val) <= max_images

\* C1 amended: for every requested maximum N >= 0 the returned list has length
\* <= N, however many items the pages hold; for N < 0 the list is empty.
C1_AtMostNonNegativeN ==
    Located => Len(l_result.val) <= (IF max_images >= 0 THEN max_images ELSE 0)

\* A category page with more usable items than the maximum was scanned and exactly
\* the maximum was returned.
C1_Witness ==
    /\ Located
    /\ Tier1Scanned
    /\ max_images >= 1
    /\ Cardinality(UsableItems) > max_images
    /\ Len(l_result.val) = max_images

\* C2: when the category page was fetched with status 200, not redirected, and both
\* scans found nothing, the media search is requested exactly once, after the
\* category request, and its list is what Image Locator returns.
C2_EmptyTier1ReturnsTier2 ==
    /\ Len(SelectSeq(l_calls, LAMBDA c : c = "search")) <= 1
    /\ Located /\ Tier1Scanned /\ l_scan = Some(<<>>) =>
          /\ l_calls = <<"category", "search">>
          /\ l_tier2.some
          /\ l_result = l_tier2
          /\ l_result.val =
                (IF search_resp.val.kind = "ok" /\ search_resp.val.status = 200
                 THEN Tier2Scan(search_resp.val.page, max_images).images
                 ELSE <<>>)

\* A category page whose items all lack their link was scanned, and the search
\* found an image, which was returned.
C2_Witness ==
    /\ Located
    /\ Tier1Scanned
    /\ cat_resp.val.page.items # <<>>
    /\ l_scan = Some(<<>>)
    /\ max_images >= 1
    /\ Len(l_result.val) = 1

\* C3 as stated: a category response that was redirected to the search page or has
\* a status other than 200 makes Image Locator request the media search and return
\* its list.
C3_RedirectOrStatusFallsThrough ==
    Located /\ Tier1Ok /\ (cat_resp.val.redirected \/ cat_resp.val.status # 200) =>
        /\ l_calls = <<"category", "search">>
        /\ l_result = l_tier2

\* C3 amended: a category response redirected to the search page (whatever its
\* status) makes Image Locator request the media search and return its list; a
\* response that was not redirected and has a status other than 200 makes it
\* return the empty list without requesting the media search.
C3_RedirectFallsThroughStatusReturnsEmpty ==
    Located /\ Tier1Ok =>
        /\ cat_resp.val.redirected =>
              /\ l_calls = <<"category", "search">>
              /\ l_tier2.some
              /\ l_result = l_tier2
        /\ (~cat_resp.val.redirected /\ cat_resp.val.status # 200) =>
              /\ l_calls = <<"category">>
              /\ l_result = Some(<<>>)

\* A redirected response with status 404 was followed by a search whose image was
\* returned.
C3_Witness ==
    /\ Located
    /\ Tier1Redirected
    /\ cat_resp.val.status = 404
    /\ l_calls = <<"category", "search">>
    /\ l_result.val # <<>>

\* C12: Tier 1 returns at most one descriptor per in-page item: an item extracted
\* by the gallery scan is not extracted again by the thumbnail scan that runs when
\* fewer than max_images were found, so no two descriptors of the returned list
\* have the same detail-page address.
C12_NoItemExtractedTwice ==
    Located /\ Tier1Scanned /\ l_scan.some /\ l_result = l_scan =>
        \A i, j \in 1..Len(l_result.val) :
            l_result.val[i].file_page = l_result.val[j].file_page => i = j

(***************************************************************************)
(* Thumbnail Upgrader: find_larger_thumbnail, and its use in               *)
(* download_thumbnail_images.                                              *)
(*                                                                         *)
(* The text of an anchor of the detail page is a sequence of characters:   *)
(* digits, ",", " ", the multiplication sign (written "x" here; it is not a *)
(* word character), and the word "pixel" and the letter "s" as atoms of    *)
(* letters.  A rendition's anchor reads "W x H pixels" with the numbers    *)
(* grouped by thousands, as the media site prints them.                    *)
(***************************************************************************)
MaxAnchors == 2

DigitChars == <<"0", "1", "2", "3", "4", "5", "6", "7", "8", "9">>

RECURSIVE Digits(_)
Digits(n) == IF n < 10 THEN <<DigitChars[n + 1]>>
             ELSE Digits(n \div 10) \o <<DigitChars[(n % 10) + 1]>>

\* The last three digits of a group, zero-padded.
Group3(n) ==
    <<DigitChars[(n \div 100) + 1], DigitChars[((n \div 10) % 10) + 1],
      DigitChars[(n % 10) + 1]>>

RECURSIVE Grouped(_)
\* f"{size:,}": decimal digits with a comma between groups of three.
Grouped(n) == IF n < 1000 THEN Digits(n)
              ELSE Grouped(n \div 1000) \o <<",">> \o Group3(n % 1000)

\* \w of the re module, on the characters of the model.
IsWordChar(c) == c \in {"0", "1", "2", "3", "4", "5", "6", "7", "8", "9", "pixel", "s"}

\* \b at the gap before position i of text t (positions 1..Len(t) + 1).
WordBoundary(t, i) ==
    LET before == i > 1 /\ IsWordChar(t[i - 1])
        after == i <= Len(t) /\ IsWordChar(t[i])
    IN  before # after

\* re.search(rf'\b{size:,}\b.*pixel', text)
MatchesSize(text, size) ==
    LET pat == Grouped(size) IN
    \E i \in 1..Len(text) :
        /\ i + Len(pat) - 1 <= Len(text)
        /\ SubSeq(text, i, i + Len(pat) - 1) = pat
        /\ WordBoundary(text, i)
        /\ WordBoundary(text, i + Len(pat))
        /\ \E j \in (i + Len(pat))..Len(text) : text[j] = "pixel"

\* The candidate widths of line 396, in the order they are tried.
CandidateSizes == <<1600, 1200, 1000, 800, 600, 400, 300>>

\* The renditions a detail page may list, and their link targets: a thumbnail
\* path (protocol-relative or absolute), the original file, or no href.
RenditionWidths == {600, 800, 1600}
RenditionHeights == {450, 800}
HrefKinds == {"thumb", "thumb_abs", "orig", "none"}
Anchors == [w : RenditionWidths, h : RenditionHeights, href : HrefKinds]

\* link.get_text().strip()
AnchorText(a) ==
    Strip(Grouped(a.w) \o <<" ", "x", " ">> \o Grouped(a.h) \o <<" ", "pixel", "s">>)

\* link.get('href', '')
AnchorHref(a) ==
    CASE a.href = "thumb" ->
            <<"//upload.wikimedia.org/wikipedia/commons", "/thumb/", "a.jpg/">>
            \o Digits(a.w) \o <<"px-a.jpg">>
      [] a.href = "thumb_abs" ->
            <<"https:", "//upload.wikimedia.org/wikipedia/commons", "/thumb/", "a.jpg/">>
            \o Digits(a.w) \o <<"px-a.jpg">>
      [] a.href = "orig" -> <<"//upload.wikimedia.org/wikipedia/commons", "/a/ab/", "a.jpg">>
      [] OTHER -> <<>>

\* The div of class fullImageLink: absent, without an img, with an img that has no
\* src, or with an img and its src.
FullImageKinds == {"no_div", "no_img", "no_src", "src"}
FullImageSrc == <<"//upload.wikimedia.org/wikipedia/commons", "/a/ab/", "a.jpg">>

DetailPages == [anchors : SeqUpTo(Anchors, MaxAnchors), full : FullImageKinds]
DetailResponses ==
    {[kind |-> "raise", status |-> 0, page |-> [anchors |-> <<>>, full |-> "no_div"]],
     [kind |-> "ok", status |-> 404, page |-> [anchors |-> <<>>, full |-> "no_div"]]}
    \cup {[kind |-> "ok", status |-> 200, page |-> p] : p \in DetailPages}

\* href if href.startswith('http') else ('https:' + href)
Absolute(u) == IF StartsWithHttp(u) THEN u ELSE <<"https:">> \o u

\* Lines 401-408 for one size: the first anchor whose text matches the size and
\* whose href holds '/thumb/'.
RECURSIVE FirstSizeLink(_, _)
FirstSizeLink(anchors, size) ==
    IF anchors = <<>> THEN None
    ELSE LET text == AnchorText(Head(anchors))
             href == AnchorHref(Head(anchors))
         IN  IF MatchesSize(text, size) /\ href # <<>> /\ Contains(href, "/thumb/")
             THEN Some(Absolute(href))
             ELSE FirstSizeLink(Tail(anchors), size)

\* Lines 396-408: the loop over the candidate sizes.
RECURSIVE SizedScanNoMinimum(_, _, _)
SizedScanNoMinimum(sizes, page, min) ==
    IF sizes = <<>> THEN None
    ELSE LET hit == FirstSizeLink(page.anchors, Head(sizes)) IN
         IF hit.some THEN hit ELSE SizedScanNoMinimum(Tail(sizes), page, min)
RECURSIVE SizedScan(_, _, _)
SizedScan(sizes, page, min) ==
    IF sizes = <<>> THEN None
    ELSE IF Head(sizes) < min THEN SizedScan(Tail(sizes), page, min)
    ELSE LET hit == FirstSizeLink(page.anchors, Head(sizes)) IN
         IF hit.some THEN hit ELSE SizedScan(Tail(sizes), page, min)

\* Lines 411-415: the image of the full-image link.
FullImage(page) == IF page.full = "src" THEN Some(Absolute(FullImageSrc)) ELSE None

find_larger_thumbnail(resp, min) ==
    IF resp.kind = "raise" THEN None
    ELSE IF resp.status # 200 THEN None
    ELSE LET sized == SizedScan(CandidateSizes, resp.page, min) IN
         IF sized.some THEN sized ELSE FullImage(resp.page)

\* The descriptor whose detail page is fetched.
UpgradedDescriptor == Descriptor(Element([where |-> "gallery", form |-> "rel"], 1))

\* min_width is 800 or whatever integer int(user_width) gave.
MinWidths == {300, 800}

InitUpgrader ==
    /\ min_width \in MinWidths
    /\ page_resp = None
    /\ u_pc = "fetch"
    /\ larger_thumb = None
    /\ img_url = None
    /\ IdleTitle /\ IdleRender /\ IdleLocator /\ IdleDownloader /\ IdleMain

\* Line 389: response = requests.get(file_page, headers=get_headers())
FetchDetailPage ==
    /\ u_pc = "fetch"
    /\ \E resp \in DetailResponses : page_resp' = Some(resp)
    /\ u_pc' = "find"
    /\ UNCHANGED <<min_width, larger_thumb, img_url, notUpgrader>>

\* Lines 390-421 and 443: larger_thumb = find_larger_thumbnail(...)
FindLargerThumbnail ==
    /\ u_pc = "find"
    /\ larger_thumb' = find_larger_thumbnail(page_resp.val, min_width)
    /\ u_pc' = "choose"
    /\ UNCHANGED <<min_width, page_resp, img_url, notUpgrader>>

\* Line 446: img_url = larger_thumb if larger_thumb else img_info['thumbnail_url']
ChooseUrl ==
    /\ u_pc = "choose"
    /\ img_url' = IF Truthy(larger_thumb) THEN larger_thumb
                  ELSE Some(UpgradedDescriptor.thumbnail_url)
    /\ u_pc' = "chosen"
    /\ UNCHANGED <<min_width, page_resp, larger_thumb, notUpgrader>>

NextUpgrader == FetchDetailPage \/ FindLargerThumbnail \/ ChooseUrl
SpecUpgrader == InitUpgrader /\ [][NextUpgrader]_vars

(***************************************************************************)
(* Thumbnail Upgrader: properties.                                         *)
(***************************************************************************)
Upgraded == u_pc \in {"choose", "chosen"}

\* The case of C4: the detail page was fetched with status 200, lists one sized
\* rendition, 600 px wide, and the minimum width is 800.
Only600Wanted800 ==
    /\ page_resp.some
    /\ page_resp.val.kind = "ok"
    /\ page_resp.val.status = 200
    /\ Len(page_resp.val.page.anchors) = 1
    /\ page_resp.val.page.anchors[1].w = 600
    /\ min_width = 800

\* C4 as stated: with only a 600 px rendition listed and a minimum of 800,
\* find_larger_thumbnail returns None and the downloader fetches the descriptor's
\* original thumbnail address.
C4_Only600ReturnsNone ==
    Upgraded /\ Only600Wanted800 =>
        /\ larger_thumb = None
        /\ u_pc = "chosen" => img_url = Some(UpgradedDescriptor.thumbnail_url)

\* C4 amended: with only a 600 px rendition listed and a minimum of 800,
\* find_larger_thumbnail returns None, and the downloader fetches the original
\* thumbnail address, exactly when the page has no full-image link with an image
\* address and the anchor's text does not read as a candidate width >= 800 at its
\* height on a thumbnail link.  With a full-image link it returns that image's
\* address; when the height is one of 1600, 1200, 1000, 800 and the link is a
\* thumbnail path it returns the 600 px rendition's address.
C4_Only600FallsBackToFullImage ==
    Upgraded /\ Only600Wanted800 =>
        LET a == page_resp.val.page.anchors[1]
            heightHit == a.h \in {1600, 1200, 1000, 800} /\ a.href \in {"thumb", "thumb_abs"}
            hasFull == page_resp.val.page.full = "src"
        IN  /\ heightHit =>
                 /\ larger_thumb.some
                 /\ Contains(larger_thumb.val, "/thumb/")
                 /\ Head(larger_thumb.val) = "https:"
            /\ (~heightHit /\ hasFull) =>
                 larger_thumb = Some(<<"https:">> \o FullImageSrc)
            /\ (~heightHit /\ ~hasFull) => larger_thumb = None
            /\ u_pc = "chosen" =>
                 img_url = (IF larger_thumb = None
                            THEN Some(UpgradedDescriptor.thumbnail_url)
                            ELSE larger_thumb)

\* A page listing only a 600 x 450 rendition on a thumbnail link, without a
\* full-image link, gave no result and the original thumbnail address was chosen.
C4_Witness ==
    /\ u_pc = "chosen"
    /\ Only600Wanted800
    /\ page_resp.val.page.anchors[1].href = "thumb"
    /\ page_resp.val.page.anchors[1].h = 450
    /\ larger_thumb = None
    /\ img_url = Some(UpgradedDescriptor.thumbnail_url)

\* The sized scan gave the result: the page was fetched with status 200 and an
\* anchor passed the test of line 407 for a candidate size >= min_width.
FromSizedScan ==
    /\ page_resp.some
    /\ page_resp.val.kind = "ok"
    /\ page_resp.val.status = 200
    /\ SizedScan(CandidateSizes, page_resp.val.page, min_width).some

\* A rendition the sized scan may return: its width is a candidate width, at least
\* the minimum, and its link target holds '/thumb/'.
Eligible(a) ==
    /\ a.w \in {CandidateSizes[k] : k \in 1..Len(CandidateSizes)}
    /\ a.w >= min_width
    /\ a.href \in {"thumb", "thumb_abs"}

\* C11: whenever find_larger_thumbnail returns an address found by its sized scan,
\* the address is that of the widest rendition of the detail page whose width is a
\* candidate width, is at least the requested minimum and whose link target holds
\* '/thumb/'; a rendition narrower than the minimum is never returned from the
\* sized scan, whatever width x height text the anchors carry.
C11_SizedScanReturnsWidestAtLeastMinimum ==
    Upgraded /\ FromSizedScan =>
        LET anchors == page_resp.val.page.anchors IN
        \E i \in 1..Len(anchors) :
            /\ Eligible(anchors[i])
            /\ larger_thumb = Some(Absolute(AnchorHref(anchors[i])))
            /\ \A j \in 1..Len(anchors) :
                  Eligible(anchors[j]) => anchors[j].w <= anchors[i].w

(***************************************************************************)
(* Image Downloader: download_thumbnail_images.                            *)
(*                                                                         *)
(* The folder is created before the loop (lines 436-437); the loop is      *)
(* modelled from its first iteration.  What the network and the file       *)
(* system answer for an item is chosen when the item asks.                 *)
(***************************************************************************)
MaxImages == 2

\* The descriptors Image Locator can have produced.
DownloadDescriptors ==
    {Descriptor(Element([where |-> "gallery", form |-> f], i)) :
        f \in {"rel", "abs"}, i \in 1..2}

\* The detail pages the upgrader is answered with here: a failed request, and a
\* page listing an 800 px rendition.
DownloadDetailResponses ==
    {[kind |-> "raise", status |-> 0, page |-> [anchors |-> <<>>, full |-> "no_div"]],
     [kind |-> "ok", status |-> 200,
      page |-> [anchors |-> <<[w |-> 800, h |-> 450, href |-> "thumb"]>>,
                full |-> "src"]]}

\* re.sub(r'[\\/*?:"<>|]', "_", filename) on one atom: each of the nine characters
\* \ / * ? : " < > | becomes "_"; the atoms of several characters that hold one
\* are listed with their images.
SanitizeAtom(a) ==
    CASE a \in {"\\", "/", "*", "?", ":", "\"", "<", ">", "|"} -> "_"
      [] a = "File:" -> "File_"
      [] a = "https:" -> "https_"
      [] a = "http:" -> "http_"
      [] a = "//" -> "__"
      [] a = "/wiki/" -> "_wiki_"
      [] a = "upload.wikimedia.org/" -> "upload.wikimedia.org_"
      [] a = "thumb/" -> "thumb_"
      [] OTHER -> a
Sanitize(name) == [i \in 1..Len(name) |-> SanitizeAtom(name[i])]

\* os.path.join(folder, safe_filename) with the default folder
FilePath(name) == <<"wiki_images", "/">> \o Sanitize(name)

\* Lines 475-476: the handler of the item's try block; the loop goes on.
AfterItemErrorUncaught == "crashed"
AfterItemError == "next"

\* The loop's step to the next descriptor, or the return after the last.
LoopOn(n, i) == IF i < n THEN "upgrade" ELSE "returned"

InitDownloader ==
    /\ images_list \in SeqUpTo(DownloadDescriptors, MaxImages)
    /\ d_idx = 0
    /\ d_pc = "loop"
    /\ d_url = None
    /\ d_log = <<>>
    /\ saved_images = <<>>
    /\ min_width = 800
    /\ page_resp = None /\ u_pc = "idle" /\ larger_thumb = None /\ img_url = None
    /\ IdleTitle /\ IdleRender /\ IdleLocator /\ IdleMain

\* Line 440: for img_info in images_list, and line 478: return saved_images
EnterLoop ==
    /\ d_pc = "loop"
    /\ d_pc' = LoopOn(Len(images_list), 0)
    /\ d_idx' = IF Len(images_list) > 0 THEN 1 ELSE 0
    /\ UNCHANGED <<images_list, d_url, d_log, saved_images, notDownloader>>

\* Lines 443-448: the upgrader's answer and the choice of img_url.
UpgradeItem ==
    /\ d_pc = "upgrade"
    /\ \E resp \in DownloadDetailResponses :
          LET larger == find_larger_thumbnail(resp, min_width) IN
          d_url' = IF Truthy(larger) THEN larger
                   ELSE Some(images_list[d_idx].thumbnail_url)
    /\ d_pc' = "transfer"
    /\ UNCHANGED <<images_list, d_idx, d_log, saved_images, notDownloader>>

\* The end of one item's path: its outcome is logged and the loop goes on.
FinishItem(outcome, saved) ==
    /\ d_log' = Append(d_log, <<d_idx, outcome>>)
    /\ saved_images' = saved
    /\ d_url' = None
    /\ IF outcome = "error" /\ AfterItemError = "crashed"
       THEN d_pc' = "crashed" /\ UNCHANGED d_idx
       ELSE /\ d_pc' = LoopOn(Len(images_list), d_idx)
            /\ d_idx' = IF d_idx < Len(images_list) THEN d_idx + 1 ELSE d_idx

\* Lines 451-456 and 473-476: the delay and the transfer; it raises, or answers
\* with a status other than 200, or with 200.
TransferItem ==
    /\ d_pc = "transfer"
    /\ \E answer \in {"raise", "http_404", "http_200"} :
          IF answer = "http_200"
          THEN /\ d_pc' = "save"
               /\ UNCHANGED <<d_idx, d_url, d_log, saved_images>>
          ELSE FinishItem(IF answer = "raise" THEN "error" ELSE "failed", saved_images)
    /\ UNCHANGED <<images_list, notDownloader>>

\* Lines 458-471: the filename is sanitized, the bytes are decoded as an image and
\* written; either may raise, which skips the item.
SaveItem ==
    /\ d_pc = "save"
    /\ \E answer \in {"not_an_image", "write_fails", "written"} :
          IF answer = "written"
          THEN FinishItem("saved",
                          Append(saved_images, FilePath(images_list[d_idx].filename)))
          ELSE FinishItem("skipped", saved_images)
    /\ UNCHANGED <<images_list, notDownloader>>

NextDownloader == EnterLoop \/ UpgradeItem \/ TransferItem \/ SaveItem
SpecDownloader == InitDownloader /\ [][NextDownloader]_vars

(***************************************************************************)
(* Image Downloader: properties.                                           *)
(***************************************************************************)
\* C8: whatever happens to each item (the upgrader finds nothing or fails, the
\* transfer raises or answers with another status than 200, the bytes are no image,
\* the write fails), the loop never aborts, always has a next step until it
\* returns, has handled the descriptors 1..i in order when it is at descriptor
\* i + 1, and has handled every descriptor exactly once, in list order, when it
\* returns.
C8_BatchNeverAborts ==
    /\ d_pc # "crashed"
    /\ d_pc \notin {"returned", "idle"} => ENABLED NextDownloader
    /\ d_pc \in {"upgrade", "transfer", "save"} =>
          /\ d_idx \in 1..Len(images_list)
          /\ [k \in 1..Len(d_log) |-> d_log[k][1]] = [k \in 1..(d_idx - 1) |-> k]
    /\ d_pc = "returned" =>
          [k \in 1..Len(d_log) |-> d_log[k][1]] = [k \in 1..Len(images_list) |-> k]

\* A batch of two was returned from after the transfer of the first item raised and
\* the second item was saved.
C8_Witness ==
    /\ d_pc = "returned"
    /\ Len(images_list) = 2
    /\ d_log = <<<<1, "error">>, <<2, "saved">>>>
    /\ Len(saved_images) = 1

(***************************************************************************)
(* Content Fetcher and the main flow after the title is resolved.          *)
(***************************************************************************)
\* The content trees the API is answered with here.
MainTrees ==
    {<<>>,
     [title |-> <<Txt(<<"Gravity">>)>>],
     [title |-> <<Txt(<<"Gravity">>)>>, text |-> <<>>],
     [title |-> <<Txt(<<"Gravity">>)>>, text |-> ("*" :> <<>>)],
     [title |-> <<Txt(<<"Gravity">>)>>, text |-> ("*" :> <<ParaPlain>>),
      categories |-> <<("*" :> <<"Category:", "Physics">>)>>]}

\* The answers to requests.get(api_url, params=params): an exception, a status
\* other than 200, or 200 with a JSON body: an error object, neither 'error' nor
\* 'parse', or a parse object.
ApiResponses ==
    {[kind |-> "raise", status |-> 0, body |-> <<>>],
     [kind |-> "ok", status |-> 500, body |-> <<>>],
     [kind |-> "ok", status |-> 200, body |-> [error |-> [info |-> <<"missingtitle">>]]],
     [kind |-> "ok", status |-> 200, body |-> <<>>]}
    \cup {[kind |-> "ok", status |-> 200, body |-> [parse |-> t]] : t \in MainTrees}

\* get_wiki_content_via_api on an answer that did not raise (lines 56-68).
get_wiki_content_via_api(resp) ==
    IF resp.status # 200 THEN None
    ELSE IF "error" \in DOMAIN resp.body THEN None
    ELSE IF "parse" \in DOMAIN resp.body THEN Some(resp.body["parse"]) ELSE None

\* Python truthiness of an optional dict: None and {} are false.
TruthyDict(o) == o.some /\ DOMAIN o.val # {}

\* f.write(html_content) at line 505 raises TypeError when html_content is None.
WriteHtml(html) == IF html.some THEN "written" ELSE "TypeError"

\* The answers typed at the prompts for the maximum and the minimum width, and
\* what int() makes of them: blank keeps the default, a non-number raises
\* ValueError and keeps the default.
TypedNumbers == {[text |-> "blank"], [text |-> "abc"], [text |-> "number", int |-> 1]}
ParseNumber(typed, default) == IF typed.text = "number" THEN typed.int ELSE default

DefaultMaxImages == 15
DefaultMinWidth == 800

\* The answers the media site gives in the main flow.
MainCategoryResponses ==
    {[kind |-> "raise", redirected |-> FALSE, status |-> 0, page |-> NoPage],
     [kind |-> "ok", redirected |-> FALSE, status |-> 200,
      page |-> [wrapped |-> FALSE,
                items |-> <<[where |-> "gallery", form |-> "rel"],
                            [where |-> "thumb", form |-> "abs"]>>]]}
MainSearchResponses == {[kind |-> "raise", status |-> 0, page |-> [items |-> <<>>]]}

InitMain ==
    /\ wiki_url = <<"https://en.wikipedia.org", WikiMarker, "Gravity">>
    /\ page_title = Some(<<"Gravity">>)
    /\ t_pc = "resolved"
    /\ m_pc = "fetch_content"
    /\ api_resp = None
    /\ wiki_data = None
    /\ m_out = None
    /\ m_files = {}
    /\ m_inputs = <<>>
    /\ m_images = None
    /\ IdleRender /\ IdleLocator /\ IdleUpgrader /\ IdleDownloader

\* Line 493: wiki_data = get_wiki_content_via_api(page_title); an exception of
\* requests.get is caught nowhere.
FetchContent ==
    /\ m_pc = "fetch_content"
    /\ \E resp \in ApiResponses :
          /\ api_resp' = Some(resp)
          /\ IF resp.kind = "raise"
             THEN m_pc' = "crashed" /\ UNCHANGED wiki_data
             ELSE /\ wiki_data' = get_wiki_content_via_api(resp)
                  /\ m_pc' = "content_fetched"
    /\ UNCHANGED <<m_out, m_files, m_inputs, m_images>>
    /\ UNCHANGED <<titleVars, renderVars, locVars, upVars, dlVars>>

\* Lines 495-508: render and save the text and the HTML, or print the failure.
\* open("wiki_content.html", "w") at line 504 creates the file before the write
\* of line 505, so the file exists (empty) also when the write raises.
SaveContent ==
    /\ m_pc = "content_fetched"
    /\ IF TruthyDict(wiki_data)
       THEN LET out == process_wiki_content(wiki_data) IN
            /\ m_out' = Some(out)
            /\ m_files' = {"wiki_content.txt", "wiki_content.html"}
            /\ IF WriteHtml(out.html) = "written"
               THEN m_pc' = "prompt"
               ELSE m_pc' = "crashed"
       ELSE /\ m_pc' = "prompt"
            /\ UNCHANGED <<m_out, m_files>>
    /\ UNCHANGED <<api_resp, wiki_data, m_inputs, m_images>>
    /\ UNCHANGED <<titleVars, renderVars, locVars, upVars, dlVars>>

\* Lines 511-513: the image-download prompt.
AskDownload ==
    /\ m_pc = "prompt"
    /\ \E answer \in {"y", "n"} :
          /\ m_inputs' = <<answer>>
          /\ m_pc' = IF answer # "y" THEN "exit0" ELSE "ask_numbers"
    /\ UNCHANGED <<api_resp, wiki_data, m_out, m_files, m_images>>
    /\ UNCHANGED <<titleVars, renderVars, locVars, upVars, dlVars>>

\* Lines 516-530: the prompts for the maximum and the minimum width.
AskNumbers ==
    /\ m_pc = "ask_numbers"
    /\ \E user_max \in TypedNumbers, user_width \in TypedNumbers :
          m_inputs' = m_inputs \o <<ParseNumber(user_max, DefaultMaxImages),
                                   ParseNumber(user_width, DefaultMinWidth)>>
    /\ m_pc' = "locate"
    /\ UNCHANGED <<api_resp, wiki_data, m_out, m_files, m_images>>
    /\ UNCHANGED <<titleVars, renderVars, locVars, upVars, dlVars>>

\* Line 532: images = get_commons_category_images(page_title, max_images=max_imgs)
LocateImages ==
    /\ m_pc = "locate"
    /\ \E cresp \in MainCategoryResponses, sresp \in MainSearchResponses :
          m_images' = Some(get_commons_category_images(cresp, sresp, m_inputs[2]))
    /\ m_pc' = "located"
    /\ UNCHANGED <<api_resp, wiki_data, m_out, m_files, m_inputs>>
    /\ UNCHANGED <<titleVars, renderVars, locVars, upVars, dlVars>>

\* Lines 535-539: download the images, if any; the downloader returns the paths of
\* the items that were saved.
DownloadImages ==
    /\ m_pc = "located"
    /\ IF m_images.val # <<>>
       THEN \E ok \in SUBSET (1..Len(m_images.val)) :
               m_images' =
                   Some([k \in 1..Len(SelectSeq(Indices(Len(m_images.val)),
                                               LAMBDA i : i \in ok)) |->
                           FilePath(m_images.val[SelectSeq(Indices(Len(m_images.val)),
                                                  LAMBDA i : i \in ok)[k]].filename)])
       ELSE UNCHANGED m_images
    /\ m_pc' = "done"
    /\ UNCHANGED <<api_resp, wiki_data, m_out, m_files, m_inputs>>
    /\ UNCHANGED <<titleVars, renderVars, locVars, upVars, dlVars>>

NextMain ==
    FetchContent \/ SaveContent \/ AskDownload \/ AskNumbers \/ LocateImages
    \/ DownloadImages
SpecMain == InitMain /\ [][NextMain]_vars

(***************************************************************************)
(* Main flow: properties.                                                  *)
(***************************************************************************)
\* The failures of the content path that C10 names: a status other than 200, an
\* API error payload, a missing parse object, a content tree without markup.
ContentPathFailed ==
    /\ api_resp.some
    /\ api_resp.val.kind = "ok"
    /\ \/ api_resp.val.status # 200
       \/ "error" \in DOMAIN api_resp.val.body
       \/ "parse" \notin DOMAIN api_resp.val.body
       \/ "text" \notin DOMAIN api_resp.val.body["parse"]
       \/ "*" \notin DOMAIN api_resp.val.body["parse"]["text"]

\* C10: once the title is resolved, a failure of the content path never ends the
\* program abnormally: the program goes on to the image-download prompt, and from
\* there to its end.
C10_ContentFailureReachesPrompt ==
    ContentPathFailed =>
        /\ m_pc # "crashed"
        /\ m_pc \notin {"exit0", "done"} => ENABLED NextMain

====
